---- MODULE Spec2Model ----
(***************************************************************************)
(* AgriSentinel: land parcels, crop-health analysis and alerts.            *)
(*                                                                         *)
(* The model has two layers.                                               *)
(*   - processing.py: severity classification, the min-max normalization,  *)
(*     the point heatmap, the statistics, the 6x6 placeholder heatmap and  *)
(*     compute_ndvi_and_run_model with its try/except.                     *)
(*   - app.py: the REST handlers over the parcels and alerts tables.       *)
(*                                                                         *)
(* Numbers.  Scores are exact rationals [n, d] with d > 0.  Raw model      *)
(* scores (IsolationForest.decision_function) are integers counted in      *)
(* units of 1e-8, so that the 1e-8 of the normalization is one unit.       *)
(* The third-party calls (Earth Engine, scikit-learn, shapely, random) are *)
(* inputs: what they return or raise is drawn from bounded sets.           *)
(***************************************************************************)
EXTENDS Integers, Sequences, FiniteSets, TLC

(***************************************************************************)
(* TLC keeps the fields of a record in the order in which their names      *)
(* first appear in the module.  The names are listed here once, and every  *)
(* record below writes its fields in this order, so that a record value is *)
(* in normal form from the moment it is built.                             *)
(***************************************************************************)
RecordFields ==
    [n |-> 0, d |-> 0, pc |-> 0, user |-> 0, method |-> 0, route |-> 0,
     land_id |-> 0, data |-> 0, op |-> 0, status |-> 0, body |-> 0, analysis |-> 0,
     parcels |-> 0, alerts |-> 0, raised |-> 0, path |-> 0, heatmap |-> 0,
     stats |-> 0, computed_at |-> 0, geojson_obj |-> 0,
     transformed_with |-> 0, scored_with |-> 0,
     reference_date |-> 0, env |-> 0, fail |-> 0, raws |-> 0, rnd |-> 0,
     out |-> 0, trace |-> 0, scaler |-> 0, trained_model |-> 0,
     type |-> 0, coordinates |-> 0, geometry |-> 0,
     properties |-> 0, features |-> 0, score |-> 0, points |-> 0, df |-> 0,
     cell |-> 0, row |-> 0, i |-> 0, j |-> 0, dummy_stats |-> 0,
     severity |-> 0, color |-> 0, message |-> 0, total_zones |-> 0,
     healthy_count |-> 0, moderate_count |-> 0, warning_count |-> 0,
     critical_count |-> 0, anomaly_score |-> 0, normalized_anomaly |-> 0,
     aoi |-> 0, ref_date |-> 0, fitted |-> 0, on |-> 0, py |-> 0,
     val |-> 0, s |-> 0, error |-> 0, id |-> 0, user_id |-> 0, name |-> 0,
     description |-> 0, geojson |-> 0, created_at |-> 0,
     last_computed_at |-> 0, area_hectares |-> 0, area_acres |-> 0,
     hectares |-> 0, factor |-> 0]

VARIABLES parcels, alerts, now, scaler, trained_model, resp, inflight

vars == <<parcels, alerts, now, scaler, trained_model, resp, inflight>>

(***************************************************************************)
(* Bounds of the model.                                                    *)
(***************************************************************************)
MaxParcels == 1
MaxAlerts == 1
MaxTime == 1
MaxPoints == 3
MaxStream == 3
MaxThreads == 2

(***************************************************************************)
(* Rationals.                                                              *)
(***************************************************************************)
Q(n, d) == [n |-> n, d |-> d]

GT(a, b) == a.n * b.d > b.n * a.d

LT(a, b) == a.n * b.d < b.n * a.d

LE(a, b) == a.n * b.d <= b.n * a.d

Severities == <<"healthy", "moderate", "warning", "critical">>

(***************************************************************************)
(* processing.py, generate_heatmap_from_points: the if/elif chain that     *)
(* turns a row's normalized_anomaly into (severity, color).                *)
(***************************************************************************)
point_severity(anomaly) ==
    IF GT(anomaly, Q(7, 10)) THEN [severity |-> "critical", color |-> "#d73027"]
    ELSE IF GT(anomaly, Q(5, 10)) THEN [severity |-> "warning", color |-> "#fc8d59"]
    ELSE IF GT(anomaly, Q(3, 10)) THEN [severity |-> "moderate", color |-> "#fee090"]
    ELSE [severity |-> "healthy", color |-> "#91cf60"]

(***************************************************************************)
(* processing.py, compute_statistics_from_df: the lambda applied to        *)
(* normalized_anomaly before value_counts().                               *)
(***************************************************************************)
(* The same chain with >= where the code has >. *)
df_severity_ge(x) ==
    IF ~LT(x, Q(7, 10)) THEN "critical"
    ELSE IF ~LT(x, Q(5, 10)) THEN "warning"
    ELSE IF ~LT(x, Q(3, 10)) THEN "moderate"
    ELSE "healthy"

df_severity(x) ==
    IF GT(x, Q(7, 10)) THEN "critical"
    ELSE IF GT(x, Q(5, 10)) THEN "warning"
    ELSE IF GT(x, Q(3, 10)) THEN "moderate"
    ELSE "healthy"

(***************************************************************************)
(* processing.py, generate_dummy_heatmap: the if/elif chain on a cell's    *)
(* score.                                                                  *)
(***************************************************************************)
cell_severity(score) ==
    IF GT(score, Q(7, 10)) THEN [severity |-> "critical", color |-> "#d73027"]
    ELSE IF GT(score, Q(5, 10)) THEN [severity |-> "warning", color |-> "#fc8d59"]
    ELSE IF GT(score, Q(3, 10)) THEN [severity |-> "moderate", color |-> "#fee090"]
    ELSE [severity |-> "healthy", color |-> "#91cf60"]

(***************************************************************************)
(* processing.py, generate_dummy_heatmap: the four generator conditions of *)
(* the stats dictionary; the bands under which a score s is counted.       *)
(***************************************************************************)
dummy_stats_bands(s) ==
    (IF LE(s, Q(3, 10)) THEN {"healthy"} ELSE {})
    \cup (IF LT(Q(3, 10), s) /\ LE(s, Q(5, 10)) THEN {"moderate"} ELSE {})
    \cup (IF LT(Q(5, 10), s) /\ LE(s, Q(7, 10)) THEN {"warning"} ELSE {})
    \cup (IF GT(s, Q(7, 10)) THEN {"critical"} ELSE {})

(***************************************************************************)
(* GeoJSON objects are Python dicts: functions from the keys they carry.   *)
(* A ring list is named by the shape it draws; its bounding box is cut     *)
(* into grid_size x grid_size cells, row i (south to north), column j.     *)
(*   rect : the bounding box itself.                                       *)
(*   tri  : the right triangle below the diagonal of the bounding box.     *)
(*   ell  : the bounding box without its upper right quarter (the cut is   *)
(*          strictly inside the cells of row/column grid_size \div 2 - 1). *)
(*   comb : the bottom row of cells plus two prongs, one a fifth of a cell *)
(*          wide at the left edge, the other from four fifths of the first *)
(*          column to the right edge; the first column above the bottom    *)
(*          row holds two separate pieces of the polygon.                  *)
(*   bars : a MultiPolygon of two horizontal bars, the lower quarter of    *)
(*          the bottom row of cells and everything above three quarters of *)
(*          it; both cross every cell of the bottom row.                   *)
(***************************************************************************)
grid_size == 6

PolygonRings == {"rect", "tri", "ell", "comb"}

MultiRings == {"bars"}

dict_get(d, k) == IF k \in DOMAIN d THEN d[k] ELSE "None"

(***************************************************************************)
(* shapely: cell.intersects(geom) and the geom_type of                     *)
(* cell.intersection(geom) for the cell in row i, column j.                *)
(***************************************************************************)
clip_kind(coords, i, j) ==
    CASE coords = "rect" -> "Polygon"
      [] coords = "tri" -> IF i + j < grid_size THEN "Polygon"
                           ELSE IF i + j = grid_size THEN "Point"
                           ELSE "disjoint"
      [] coords = "ell" -> IF 2 * i >= grid_size /\ 2 * j >= grid_size
                           THEN "disjoint" ELSE "Polygon"
      [] coords = "comb" -> IF i >= 1 /\ j = 0 THEN "MultiPolygon" ELSE "Polygon"
      [] coords = "bars" -> IF i = 0 THEN "MultiPolygon" ELSE "Polygon"

(***************************************************************************)
(* shapely.geometry.shape(geojson_obj) and ee.Geometry(geojson_obj) accept *)
(* a dict only when it carries coordinates of the nesting its type needs.  *)
(***************************************************************************)
valid_geometry(geojson_obj) ==
    /\ "type" \in DOMAIN geojson_obj
    /\ "coordinates" \in DOMAIN geojson_obj
    /\ \/ geojson_obj.type = "Polygon" /\ geojson_obj.coordinates \in PolygonRings
       \/ geojson_obj.type = "MultiPolygon" /\ geojson_obj.coordinates \in MultiRings

(***************************************************************************)
(* random: the stream rnd's n-th pair of draws (n = 1, 2, ...), i.e.       *)
(*   random.uniform(0.6, 0.95) if random.random() < 0.15                   *)
(*                             else random.uniform(0.1, 0.4)               *)
(* Stream 0 never takes the first branch.                                  *)
(***************************************************************************)
LowScores == <<Q(100, 1000), Q(300, 1000), Q(301, 1000), Q(400, 1000)>>

HighScores == <<Q(600, 1000), Q(700, 1000), Q(701, 1000), Q(950, 1000)>>

Streams == 0..MaxStream

random_score(rnd, n) ==
    IF rnd > 0 /\ n % (rnd + 1) = 0
    THEN HighScores[((n + rnd) % Len(HighScores)) + 1]
    ELSE LowScores[((n + rnd) % Len(LowScores)) + 1]

(***************************************************************************)
(* processing.py, generate_dummy_heatmap: the cells in loop order.         *)
(***************************************************************************)
grid_cells == [k \in 1..(grid_size * grid_size) |->
                 [i |-> (k - 1) \div grid_size, j |-> (k - 1) % grid_size]]

count_band(scores, band) ==
    Cardinality({n \in 1..Len(scores) : band \in dummy_stats_bands(scores[n])})

(***************************************************************************)
(* A cell is kept when it intersects the polygon and its clip is not       *)
(* empty.                                                                  *)
(***************************************************************************)
cell_survives(geojson_obj, c) ==
    LET kind == clip_kind(geojson_obj.coordinates, c.i, c.j)
        intersects == kind # "disjoint"
        is_empty == kind = "disjoint"
    IN  intersects /\ ~is_empty

(***************************************************************************)
(* The feature's geometry: clipped.exterior.coords when the clip has an    *)
(* exterior, clipped.coords otherwise; a multi-part clip has neither and   *)
(* the attribute access raises NotImplementedError.                        *)
(***************************************************************************)
clip_coords_raise(kind) == kind \notin {"Polygon", "Point", "LineString"}

(***************************************************************************)
(* processing.py, generate_dummy_heatmap: the feature appended for the     *)
(* n-th kept cell, and the stats dictionary built from the scores.         *)
(***************************************************************************)
dummy_feature(kind, cell, score, sev) ==
    [type |-> "Feature",
     geometry |-> [type |-> kind, cell |-> cell],
     properties |-> [score |-> score, severity |-> sev.severity, color |-> sev.color]]

dummy_stats(scores) ==
    [total_zones |-> Len(scores),
     healthy_count |-> count_band(scores, "healthy"),
     moderate_count |-> count_band(scores, "moderate"),
     warning_count |-> count_band(scores, "warning"),
     critical_count |-> count_band(scores, "critical")]

Raised == [raised |-> TRUE, heatmap |-> <<>>, stats |-> <<>>]

dummy_loop(coords, rnd, kept) ==
    IF \E n \in 1..Len(kept) : clip_coords_raise(clip_kind(coords, kept[n].i, kept[n].j))
    THEN Raised
    ELSE [raised |-> FALSE,
          heatmap |->
            [type |-> "FeatureCollection",
             features |-> [n \in 1..Len(kept) |->
                dummy_feature(clip_kind(coords, kept[n].i, kept[n].j), kept[n],
                              random_score(rnd, n),
                              cell_severity(random_score(rnd, n)))]],
          stats |-> dummy_stats([n \in 1..Len(kept) |-> random_score(rnd, n)])]

(***************************************************************************)
(* processing.py, generate_dummy_heatmap(geojson_obj) with the random      *)
(* stream rnd.  Returns [raised, heatmap, stats]; shape() raises on a dict *)
(* that is no valid geometry.                                              *)
(***************************************************************************)
generate_dummy_heatmap(geojson_obj, rnd) ==
    IF ~valid_geometry(geojson_obj)
    THEN Raised
    ELSE dummy_loop(geojson_obj.coordinates, rnd,
                    SelectSeq(grid_cells, LAMBDA c : cell_survives(geojson_obj, c)))

(***************************************************************************)
(* The placeholder's result for every valid geometry and stream, computed  *)
(* once.                                                                   *)
(***************************************************************************)
ValidGeometries ==
    {[type |-> "Polygon", coordinates |-> c] : c \in PolygonRings}
    \cup {[type |-> "MultiPolygon", coordinates |-> c] : c \in MultiRings}

dummy_heatmap_table ==
    [g \in ValidGeometries, rnd \in Streams |-> generate_dummy_heatmap(g, rnd)]

call_generate_dummy_heatmap(geojson_obj, rnd) ==
    IF geojson_obj \in ValidGeometries
    THEN dummy_heatmap_table[geojson_obj, rnd]
    ELSE generate_dummy_heatmap(geojson_obj, rnd)

(***************************************************************************)
(* The real path.  current_df is a sequence of rows; a row carries the raw *)
(* decision_function score (units of 1e-8) and its normalized_anomaly.     *)
(***************************************************************************)
EpsUnits == 1

RawScores == {-4, -1, 1, 3, 5}

RawSeqs == UNION {[1..n -> RawScores] : n \in 0..MaxPoints}

SeqMin(s) == CHOOSE m \in {s[n] : n \in 1..Len(s)} : \A n \in 1..Len(s) : m <= s[n]

SeqMax(s) == CHOOSE m \in {s[n] : n \in 1..Len(s)} : \A n \in 1..Len(s) : m >= s[n]

(***************************************************************************)
(* processing.py, compute_ndvi_and_run_model:                              *)
(*   1 - ((anomaly_score - min_score) / (max_score - min_score + 1e-8))    *)
(***************************************************************************)
(* The normalization without the 1e-8 in the denominator. *)
normalized_anomaly_no_eps(anomaly_score, min_score, max_score) ==
    Q((max_score - min_score) - (anomaly_score - min_score),
      max_score - min_score)

normalized_anomaly(anomaly_score, min_score, max_score) ==
    Q((max_score - min_score + EpsUnits) - (anomaly_score - min_score),
      max_score - min_score + EpsUnits)

(* The same without the "1 -" in front of the quotient. *)
score_and_normalize_unflipped(raws) ==
    [n \in 1..Len(raws) |->
        [anomaly_score |-> raws[n],
         normalized_anomaly |->
            Q(raws[n] - SeqMin(raws), SeqMax(raws) - SeqMin(raws) + EpsUnits)]]

score_and_normalize(raws) ==
    [n \in 1..Len(raws) |->
        [anomaly_score |-> raws[n],
         normalized_anomaly |->
            normalized_anomaly(raws[n], SeqMin(raws), SeqMax(raws))]]

(***************************************************************************)
(* processing.py, generate_heatmap_from_points(df, aoi_geojson).           *)
(***************************************************************************)
generate_heatmap_from_points(df) ==
    [type |-> "FeatureCollection",
     features |-> [n \in 1..Len(df) |->
        [type |-> "Feature",
         geometry |-> [type |-> "Point", row |-> n],
         properties |->
            [score |-> df[n].normalized_anomaly,
             severity |-> point_severity(df[n].normalized_anomaly).severity,
             color |-> point_severity(df[n].normalized_anomaly).color]]]]

(***************************************************************************)
(* processing.py, compute_statistics_from_df(df): value_counts() of the    *)
(* classified column, and len(df).                                         *)
(***************************************************************************)
value_count(df, band) ==
    Cardinality({n \in 1..Len(df) : df_severity(df[n].normalized_anomaly) = band})

(* The statistics with the warning rows counted as critical as well. *)
compute_statistics_from_df_merged(df) ==
    [total_zones |-> Len(df),
     healthy_count |-> value_count(df, "healthy"),
     moderate_count |-> value_count(df, "moderate"),
     warning_count |-> value_count(df, "warning"),
     critical_count |-> value_count(df, "critical") + value_count(df, "warning")]

compute_statistics_from_df(df) ==
    [total_zones |-> Len(df),
     healthy_count |-> value_count(df, "healthy"),
     moderate_count |-> value_count(df, "moderate"),
     warning_count |-> value_count(df, "warning"),
     critical_count |-> value_count(df, "critical")]

(***************************************************************************)
(* What the outside world does during one call: where (if anywhere) a step *)
(* of the try block fails, the raw scores of the current points, and the   *)
(* random stream the placeholder would draw from.                          *)
(*   hist_raise    get_monthly_s2_data_last_years raises                   *)
(*   hist_empty    it returns an empty frame (ValueError is raised)        *)
(*   fit_transform scaler.fit_transform raises (no row left after dropna)  *)
(*   model_fit     trained_model.fit raises                                *)
(*   cur_raise     get_s2_data_for_date raises                             *)
(*   none          no call raises; raws = <<>> is an empty current frame   *)
(***************************************************************************)
FailPoints == {"hist_raise", "hist_empty", "fit_transform", "model_fit", "cur_raise"}

Envs ==
    {[fail |-> f, raws |-> <<>>, rnd |-> s] : f \in FailPoints \cup {"none"}, s \in Streams}
    \cup {[fail |-> "none", raws |-> r, rnd |-> 0] : r \in RawSeqs \ {<<>>}}

(***************************************************************************)
(* The module-level scaler and trained_model: fitted or not, and on which  *)
(* training data (the historical frame of an area and a reference date).   *)
(***************************************************************************)
NoData == [aoi |-> [type |-> "None"], ref_date |-> "None"]

Unfitted == [fitted |-> FALSE, on |-> NoData]

Fitted(data) == [fitted |-> TRUE, on |-> data]

(***************************************************************************)
(* processing.py, compute_ndvi_and_run_model: the calls made, in order, up *)
(* to and including the one at which the try block is left (stage), or to  *)
(* the end of the try block (stage "done").                                *)
(***************************************************************************)
StepsOfTry ==
    <<"get_monthly_s2_data_last_years", "scaler.fit_transform", "trained_model.fit",
      "get_s2_data_for_date", "scaler.transform", "decision_function", "normalize",
      "generate_heatmap_from_points", "compute_statistics_from_df">>

stage_of(env) ==
    IF env.fail \in {"hist_raise", "hist_empty"} THEN 1
    ELSE IF env.fail = "fit_transform" THEN 2
    ELSE IF env.fail = "model_fit" THEN 3
    ELSE IF env.fail = "cur_raise" \/ env.raws = <<>> THEN 4
    ELSE Len(StepsOfTry)

completed(env) == stage_of(env) = Len(StepsOfTry)

trace_of(env) == <<"ee.Geometry">> \o SubSeq(StepsOfTry, 1, stage_of(env))

(***************************************************************************)
(* The globals when the try block is left: fit_transform resets the scaler *)
(* before it validates its input; trained_model is bound to the new        *)
(* IsolationForest before fit is called on it.                             *)
(***************************************************************************)
scaler_after(env, data, scaler0) ==
    IF stage_of(env) = 1 THEN scaler0
    ELSE IF stage_of(env) = 2 THEN Unfitted
    ELSE Fitted(data)

model_after(env, data, model0) ==
    IF stage_of(env) <= 2 THEN model0
    ELSE IF stage_of(env) = 3 THEN Unfitted
    ELSE Fitted(data)

Result(raised, path, heatmap, stats, trace, sc, tm) ==
    [raised |-> raised, path |-> path, heatmap |-> heatmap, stats |-> stats,
     trace |-> trace, scaler |-> sc, trained_model |-> tm]

(***************************************************************************)
(* The try block's own result, and the except block's.                     *)
(***************************************************************************)
real_result(df, trace, sc, tm) ==
    Result(FALSE, "real", generate_heatmap_from_points(df),
           compute_statistics_from_df(df), trace, sc, tm)

fallback_result(d, trace, sc, tm) ==
    Result(d.raised, "fallback", d.heatmap, d.stats,
           Append(trace, "generate_dummy_heatmap"), sc, tm)

ref_date_of(reference_date) ==
    IF reference_date = "None" THEN "today" ELSE reference_date

training_data(geojson_obj, reference_date) ==
    [aoi |-> geojson_obj, ref_date |-> ref_date_of(reference_date)]

(***************************************************************************)
(* processing.py, compute_ndvi_and_run_model(geojson_obj, reference_date). *)
(* scaler0 and model0 are the globals at entry; the result carries their   *)
(* values at exit, whether the call returned or raised, the path taken and *)
(* the calls made, in order.  ee.Geometry(geojson_obj) precedes the try.   *)
(***************************************************************************)
compute_ndvi_and_run_model(geojson_obj, reference_date, env, scaler0, model0) ==
    IF ~valid_geometry(geojson_obj)
    THEN Result(TRUE, "none", <<>>, <<>>, <<"ee.Geometry">>, scaler0, model0)
    ELSE IF completed(env)
    THEN real_result(score_and_normalize(env.raws), trace_of(env),
                     Fitted(training_data(geojson_obj, reference_date)),
                     Fitted(training_data(geojson_obj, reference_date)))
    ELSE fallback_result(call_generate_dummy_heatmap(geojson_obj, env.rnd),
                         trace_of(env),
                         scaler_after(env, training_data(geojson_obj, reference_date),
                                      scaler0),
                         model_after(env, training_data(geojson_obj, reference_date),
                                     model0))

(***************************************************************************)
(* app.py.  The tables are functions from primary keys to rows; a NULL     *)
(* last_computed_at is <<>>, a set one is <<t>>.                           *)
(***************************************************************************)
Users == {"alice", "bob"}

LandIds == 1..MaxParcels

EmptyTable == [k \in {} |-> k]

EmptyDict == [k \in {} |-> k]

(***************************************************************************)
(* SQLite gives a new row the largest rowid in the table plus one.         *)
(***************************************************************************)
next_id(table) ==
    IF DOMAIN table = {} THEN 1
    ELSE (CHOOSE m \in DOMAIN table : \A k \in DOMAIN table : k <= m) + 1

table_add(table, row) ==
    [k \in DOMAIN table \cup {next_id(table)} |->
        IF k \in DOMAIN table THEN table[k] ELSE row]

table_remove(table, keys) == [k \in DOMAIN table \ keys |-> table[k]]

(***************************************************************************)
(* json.dumps writes a dict as its key/value pairs in order; json.loads    *)
(* reads the pairs back into a dict.                                       *)
(***************************************************************************)
KeyOrder == <<"type", "coordinates">>

json_dumps(obj) ==
    LET ks == SelectSeq(KeyOrder, LAMBDA k : k \in DOMAIN obj)
    IN  [n \in 1..Len(ks) |-> <<ks[n], obj[ks[n]]>>]

json_loads(text) ==
    [k \in {text[n][1] : n \in 1..Len(text)} |->
        text[CHOOSE n \in 1..Len(text) : text[n][1] = k][2]]

isoformat(t) == <<"iso", t>>

isoformat_or_none(t) == IF t = <<>> THEN <<>> ELSE isoformat(t[1])

(***************************************************************************)
(* Request bodies.  A JSON value that the handlers treat as a GeoJSON      *)
(* object is tagged with its Python type: a dict (val), or a string.       *)
(***************************************************************************)
G_tri == [type |-> "Polygon", coordinates |-> "tri"]

G_nocoords == [type |-> "Polygon"]

G_bars == [type |-> "MultiPolygon", coordinates |-> "bars"]

G_point == [type |-> "Point", coordinates |-> "pt"]

JDict(d) == [py |-> "dict", val |-> d]

JStr == [py |-> "str", val |-> EmptyDict]

GeoValues == {JDict(EmptyDict), JStr, JDict(G_point), JDict(G_tri),
              JDict(G_nocoords), JDict(G_bars)}

truthy_geo(g) == g.py = "str" \/ DOMAIN g.val # {}

MakeBody(keys, nm, ds, gj) ==
    [k \in keys |-> CASE k = "name" -> nm
                      [] k = "description" -> ds
                      [] k = "geojson" -> gj]

PostBodies ==
    {MakeBody({"name", "geojson"}, nm, "", gj) : nm \in {"", "A"}, gj \in GeoValues}
    \cup {MakeBody({"name", "description", "geojson"}, "A", "d", JDict(G_tri)),
          MakeBody({"geojson"}, "", "", JDict(G_tri)),
          MakeBody({"name"}, "A", "", JStr)}

PutBodies ==
    {MakeBody({"name"}, "B", "", JStr),
     MakeBody({"description"}, "", "d", JStr),
     MakeBody({"geojson"}, "", "", JDict(G_nocoords)),
     MakeBody({"name", "description", "geojson"}, "B", "d", JDict(G_tri)),
     MakeBody({"name", "description", "geojson"}, "B", "d", JDict(G_point)),
     MakeBody({"name", "geojson"}, "B", "", JStr)}

(***************************************************************************)
(* reference_date of a compute request: absent, or a JSON string, or a     *)
(* JSON number.                                                            *)
(***************************************************************************)
DateInputs ==
    {[py |-> "absent", s |-> ""], [py |-> "str", s |-> ""],
     [py |-> "str", s |-> "2024-01-15"], [py |-> "str", s |-> "15/01/2024"],
     [py |-> "int", s |-> "20240115"]}

ValidDates == {"2024-01-15"}

(***************************************************************************)
(* resp holds the last request served and the response to it: the request  *)
(* (who sent it, method, route, <id> and JSON body), the status, the JSON   *)
(* body sent back, and how the handler's call of compute_ndvi_and_run_model *)
(* ended ("not called", "returned" or "raised").                            *)
(***************************************************************************)
Request(user, method, route, land_id, data) ==
    [user |-> user, method |-> method, route |-> route, land_id |-> land_id,
     data |-> data]

Resp(op, status, body, analysis) ==
    [op |-> op, status |-> status, body |-> body, analysis |-> analysis]

Error(msg) == [error |-> msg]

parcel_json(id, p) ==
    [id |-> id, name |-> p.name, description |-> p.description,
     geojson |-> json_loads(p.geojson),
     created_at |-> isoformat(p.created_at),
     last_computed_at |-> isoformat_or_none(p.last_computed_at)]

(***************************************************************************)
(* app.py, api_lands, GET.                                                 *)
(***************************************************************************)
(* The listing without the filter on user_id. *)
api_lands_get_all(user) ==
    /\ resp' = Resp(Request(user, "GET", "/api/lands", 0, EmptyDict), 200,
                    {parcel_json(id, parcels[id]) : id \in DOMAIN parcels},
                    "not called")
    /\ UNCHANGED <<parcels, alerts, now, scaler, trained_model, inflight>>

api_lands_get(user) ==
    /\ resp' = Resp(Request(user, "GET", "/api/lands", 0, EmptyDict), 200,
                    {parcel_json(id, parcels[id]) :
                        id \in {k \in DOMAIN parcels : parcels[k].user_id = user}},
                    "not called")
    /\ UNCHANGED <<parcels, alerts, now, scaler, trained_model, inflight>>

(***************************************************************************)
(* app.py, api_lands, POST: the response and the parcels table after it.   *)
(***************************************************************************)
api_lands_post_result(user, data) ==
    IF "name" \notin DOMAIN data \/ data.name = ""
    THEN [status |-> 400, body |-> Error("Name is required"), parcels |-> parcels]
    ELSE IF "geojson" \notin DOMAIN data \/ ~truthy_geo(data.geojson)
    THEN [status |-> 400, body |-> Error("GeoJSON is required"), parcels |-> parcels]
    ELSE IF data.geojson.py # "dict"
    THEN [status |-> 500, body |-> Error("AttributeError"), parcels |-> parcels]
    ELSE IF dict_get(data.geojson.val, "type") \notin {"Polygon", "MultiPolygon"}
    THEN [status |-> 400, body |-> Error("GeoJSON must be Polygon or MultiPolygon"),
          parcels |-> parcels]
    ELSE LET parcel == [user_id |-> user,
                        name |-> data.name,
                        description |-> IF "description" \in DOMAIN data
                                        THEN data.description ELSE "",
                        geojson |-> json_dumps(data.geojson.val),
                        created_at |-> now,
                        last_computed_at |-> <<>>]
             id == next_id(parcels)
         IN  [status |-> 201,
              body |-> [id |-> id, name |-> parcel.name,
                        description |-> parcel.description,
                        geojson |-> json_loads(parcel.geojson),
                        created_at |-> isoformat(parcel.created_at)],
              parcels |-> table_add(parcels, parcel)]

api_lands_post(user, data) ==
    LET r == api_lands_post_result(user, data)
    IN  /\ r.status = 201 => Cardinality(DOMAIN parcels) < MaxParcels
        /\ resp' = Resp(Request(user, "POST", "/api/lands", 0, data),
                        r.status, r.body, "not called")
        /\ parcels' = r.parcels
        /\ UNCHANGED <<alerts, now, scaler, trained_model, inflight>>

(***************************************************************************)
(* app.py, api_land_detail: get_or_404, the ownership check, then GET,     *)
(* PUT or DELETE.  A handler that returns or raises without commit leaves  *)
(* the tables as they were: the session is discarded with the request.     *)
(***************************************************************************)
Outcome(status, body, p, a) ==
    [status |-> status, body |-> body, parcels |-> p, alerts |-> a]

(* The same with the assignments made before the 400 kept in the table. *)
api_land_detail_result_dirty(user, land_id, method, data) ==
    IF land_id \notin DOMAIN parcels
    THEN Outcome(404, Error("Not Found"), parcels, alerts)
    ELSE IF parcels[land_id].user_id # user
    THEN Outcome(403, Error("Unauthorized"), parcels, alerts)
    ELSE IF method = "GET"
    THEN Outcome(200, parcel_json(land_id, parcels[land_id]), parcels, alerts)
    ELSE IF method = "PUT"
    THEN LET p0 == parcels[land_id]
             p1 == IF "name" \in DOMAIN data
                   THEN [p0 EXCEPT !.name = data.name] ELSE p0
             p2 == IF "description" \in DOMAIN data
                   THEN [p1 EXCEPT !.description = data.description] ELSE p1
         IN  IF "geojson" \in DOMAIN data /\ data.geojson.py # "dict"
             THEN Outcome(500, Error("AttributeError"), parcels, alerts)
             ELSE IF "geojson" \in DOMAIN data
                     /\ dict_get(data.geojson.val, "type")
                            \notin {"Polygon", "MultiPolygon"}
             THEN Outcome(400, Error("GeoJSON must be Polygon or MultiPolygon"),
                          [parcels EXCEPT ![land_id] = p2], alerts)
             ELSE LET p3 == IF "geojson" \in DOMAIN data
                            THEN [p2 EXCEPT !.geojson = json_dumps(data.geojson.val)]
                            ELSE p2
                  IN  Outcome(200, [message |-> "Parcel updated successfully"],
                              [parcels EXCEPT ![land_id] = p3], alerts)
    ELSE Outcome(200, [message |-> "Plot deleted successfully"],
                 table_remove(parcels, {land_id}),
                 table_remove(alerts,
                              {k \in DOMAIN alerts : alerts[k].land_id = land_id}))

api_land_detail_result(user, land_id, method, data) ==
    IF land_id \notin DOMAIN parcels
    THEN Outcome(404, Error("Not Found"), parcels, alerts)
    ELSE IF parcels[land_id].user_id # user
    THEN Outcome(403, Error("Unauthorized"), parcels, alerts)
    ELSE IF method = "GET"
    THEN Outcome(200, parcel_json(land_id, parcels[land_id]), parcels, alerts)
    ELSE IF method = "PUT"
    THEN LET p0 == parcels[land_id]
             p1 == IF "name" \in DOMAIN data
                   THEN [p0 EXCEPT !.name = data.name] ELSE p0
             p2 == IF "description" \in DOMAIN data
                   THEN [p1 EXCEPT !.description = data.description] ELSE p1
         IN  IF "geojson" \in DOMAIN data /\ data.geojson.py # "dict"
             THEN Outcome(500, Error("AttributeError"), parcels, alerts)
             ELSE IF "geojson" \in DOMAIN data
                     /\ dict_get(data.geojson.val, "type")
                            \notin {"Polygon", "MultiPolygon"}
             THEN Outcome(400, Error("GeoJSON must be Polygon or MultiPolygon"),
                          parcels, alerts)
             ELSE LET p3 == IF "geojson" \in DOMAIN data
                            THEN [p2 EXCEPT !.geojson = json_dumps(data.geojson.val)]
                            ELSE p2
                  IN  Outcome(200, [message |-> "Parcel updated successfully"],
                              [parcels EXCEPT ![land_id] = p3], alerts)
    ELSE Outcome(200, [message |-> "Plot deleted successfully"],
                 table_remove(parcels, {land_id}),
                 table_remove(alerts,
                              {k \in DOMAIN alerts : alerts[k].land_id = land_id}))

api_land_detail(user, land_id, method, data) ==
    LET r == api_land_detail_result(user, land_id, method, data)
    IN  /\ resp' = Resp(Request(user, method, "/api/lands/<id>", land_id, data),
                        r.status, r.body, "not called")
        /\ parcels' = r.parcels
        /\ alerts' = r.alerts
        /\ UNCHANGED <<now, scaler, trained_model, inflight>>

(***************************************************************************)
(* app.py, api_compute_heatmap.  date is the body's reference_date, env    *)
(* what the outside world does during the analysis.                        *)
(***************************************************************************)
ComputeOutcome(status, body, analysis, p, a, sc, tm) ==
    [status |-> status, body |-> body, analysis |-> analysis,
     parcels |-> p, alerts |-> a, scaler |-> sc, trained_model |-> tm]

Rejected(status, msg) ==
    ComputeOutcome(status, Error(msg), "not called", parcels, alerts,
                   scaler, trained_model)

(***************************************************************************)
(* reference_date_str is given when it is truthy; strptime raises          *)
(* TypeError on a value that is no string and ValueError on a string that  *)
(* is no date.                                                             *)
(***************************************************************************)
date_given(date) == date.py = "int" \/ (date.py = "str" /\ date.s # "")

reference_date_of(date) == IF date_given(date) THEN date.s ELSE "None"

(***************************************************************************)
(* app.py, api_compute_heatmap after compute_ndvi_and_run_model returned   *)
(* or raised res: the timestamp, the alert, the response.                  *)
(***************************************************************************)
Alert(land_id, critical_count, name, created_at) ==
    [land_id |-> land_id, severity |-> "critical",
     message |-> [critical_count |-> critical_count, name |-> name],
     created_at |-> created_at]

(* The same with an alert stored whatever critical_count is. *)
after_analysis_alert_always(land_id, date, res) ==
    IF res.raised
    THEN ComputeOutcome(500, Error("Internal Server Error"), "raised",
                        parcels, alerts, res.scaler, res.trained_model)
    ELSE ComputeOutcome(200,
            [heatmap |-> res.heatmap, stats |-> res.stats,
             computed_at |-> isoformat(now),
             reference_date |-> IF date_given(date) THEN date.s ELSE "today"],
            "returned",
            [parcels EXCEPT ![land_id].last_computed_at = <<now>>],
            IF res.stats.critical_count >= 0
            THEN table_add(alerts, Alert(land_id, res.stats.critical_count,
                                         parcels[land_id].name, now))
            ELSE alerts,
            res.scaler, res.trained_model)

after_analysis(land_id, date, res) ==
    IF res.raised
    THEN ComputeOutcome(500, Error("Internal Server Error"), "raised",
                        parcels, alerts, res.scaler, res.trained_model)
    ELSE ComputeOutcome(200,
            [heatmap |-> res.heatmap, stats |-> res.stats,
             computed_at |-> isoformat(now),
             reference_date |-> IF date_given(date) THEN date.s ELSE "today"],
            "returned",
            [parcels EXCEPT ![land_id].last_computed_at = <<now>>],
            IF res.stats.critical_count > 0
            THEN table_add(alerts, Alert(land_id, res.stats.critical_count,
                                         parcels[land_id].name, now))
            ELSE alerts,
            res.scaler, res.trained_model)

api_compute_heatmap_result(user, land_id, date, env) ==
    IF land_id \notin DOMAIN parcels
    THEN Rejected(404, "Not Found")
    ELSE IF parcels[land_id].user_id # user
    THEN Rejected(403, "Unauthorized")
    ELSE IF date_given(date) /\ date.py # "str"
    THEN Rejected(500, "TypeError")
    ELSE IF date_given(date) /\ date.s \notin ValidDates
    THEN Rejected(400, "Invalid date format. Use YYYY-MM-DD")
    ELSE after_analysis(land_id, date,
            compute_ndvi_and_run_model(json_loads(parcels[land_id].geojson),
                                       reference_date_of(date), env,
                                       scaler, trained_model))

api_compute_heatmap(user, land_id, date, env) ==
    \E r \in {api_compute_heatmap_result(user, land_id, date, env)} :
        /\ Cardinality(DOMAIN r.alerts) <= MaxAlerts
        /\ resp' = Resp(Request(user, "POST", "/api/lands/<id>/compute", land_id, date),
                        r.status, r.body, r.analysis)
        /\ parcels' = r.parcels
        /\ alerts' = r.alerts
        /\ scaler' = r.scaler
        /\ trained_model' = r.trained_model
        /\ UNCHANGED <<now, inflight>>

(***************************************************************************)
(* processing.py, calculate_polygon_area: shapely's geom.area (here in     *)
(* quarters of a grid cell) times 111 * 111, times 100.                    *)
(***************************************************************************)
shape_area(coords) ==
    CASE coords = "rect" -> 144
      [] coords = "tri" -> 72
      [] coords = "ell" -> 95
      [] coords = "comb" -> 132
      [] coords = "bars" -> 132

calculate_polygon_area(geojson_obj) ==
    LET area_deg_sq == shape_area(geojson_obj.coordinates)
        area_km_sq == area_deg_sq * (111 * 111)
    IN  area_km_sq * 100

(***************************************************************************)
(* app.py, api_land_area.  area_acres is area_hectares * 2.47105, kept as  *)
(* the two factors.                                                        *)
(***************************************************************************)
api_land_area(user, land_id) ==
    LET geojson_obj == json_loads(parcels[land_id].geojson)
        area_hectares == calculate_polygon_area(geojson_obj)
        op == Request(user, "GET", "/api/lands/<id>/area", land_id, EmptyDict)
    IN  /\ resp' = IF land_id \notin DOMAIN parcels
                   THEN Resp(op, 404, Error("Not Found"), "not called")
                   ELSE IF parcels[land_id].user_id # user
                   THEN Resp(op, 403, Error("Unauthorized"), "not called")
                   ELSE IF ~valid_geometry(geojson_obj)
                   THEN Resp(op, 500, Error("Internal Server Error"), "not called")
                   ELSE Resp(op, 200,
                             [area_hectares |-> area_hectares,
                              area_acres |-> [hectares |-> area_hectares,
                                             factor |-> Q(247105, 100000)]],
                             "not called")
        /\ UNCHANGED <<parcels, alerts, now, scaler, trained_model, inflight>>

(***************************************************************************)
(* The clock that datetime.utcnow() reads.                                 *)
(***************************************************************************)
Tick ==
    /\ now < MaxTime
    /\ now' = now + 1
    /\ UNCHANGED <<parcels, alerts, scaler, trained_model, resp, inflight>>

(***************************************************************************)
(* The web application: an empty database, the module-level scaler and     *)
(* trained_model not fitted, and requests by logged-in users one at a      *)
(* time.  The analysis of a request meets a world from WebEnvs.            *)
(***************************************************************************)
WebEnvs ==
    {e \in Envs : /\ e.fail \in {"hist_empty", "none"}
                  /\ e.rnd <= 1
                  /\ e.raws \in {<<>>, <<1, 1>>, <<5, -4>>}}

NoResp == Resp(Request("none", "none", "none", 0, EmptyDict), 0, <<>>, "not called")

(***************************************************************************)
(* The requests being served by the worker threads of the server.  A       *)
(* thread that serves no request is Idle; the others are inside            *)
(* api_compute_heatmap, at pc, with the locals of the handler and of       *)
(* compute_ndvi_and_run_model.                                             *)
(***************************************************************************)
Threads == 1..MaxThreads

Idle ==
    [pc |-> "idle", user |-> "none", land_id |-> 0, path |-> "none",
     heatmap |-> <<>>, stats |-> <<>>, geojson_obj |-> EmptyDict,
     transformed_with |-> Unfitted, scored_with |-> Unfitted, name |-> ""]

Init ==
    /\ inflight = [t \in Threads |-> Idle]
    /\ parcels = EmptyTable
    /\ alerts = EmptyTable
    /\ now = 0
    /\ scaler = Unfitted
    /\ trained_model = Unfitted
    /\ resp = NoResp

Next ==
    \/ \E user \in Users : api_lands_get(user)
    \/ \E user \in Users, data \in PostBodies : api_lands_post(user, data)
    \/ \E user \in Users, land_id \in LandIds, method \in {"GET", "DELETE"} :
            api_land_detail(user, land_id, method, EmptyDict)
    \/ \E user \in Users, land_id \in LandIds, data \in PutBodies :
            api_land_detail(user, land_id, "PUT", data)
    \/ \E user \in Users, land_id \in LandIds, date \in DateInputs, env \in WebEnvs :
            api_compute_heatmap(user, land_id, date, env)
    \/ \E user \in Users, land_id \in LandIds : api_land_area(user, land_id)
    \/ Tick

Spec == Init /\ [][Next]_vars

(***************************************************************************)
(* processing.py on its own: the classification chains applied to one      *)
(* score, generate_dummy_heatmap applied to one geometry, and              *)
(* compute_ndvi_and_run_model called on one geometry in one world, each    *)
(* in a freshly imported module.  resp records the call (its arguments in  *)
(* body, next to what it gave).                                            *)
(***************************************************************************)
Call(symbol) == Request("none", "call", symbol, 0, EmptyDict)

ScoreSteps == 20

BoundaryScores ==
    {Q(n, 1000) : n \in {0, 299, 300, 301, 499, 500, 501, 699, 700, 701, 1000}}

Scores == {Q(n, ScoreSteps) : n \in 0..ScoreSteps} \cup BoundaryScores

Geometries == ValidGeometries \cup {G_nocoords}

ReferenceDates == {"None", "2024-01-15"}

classify(score) ==
    /\ resp = NoResp
    /\ resp' = Resp(Call("classify"), 0,
                    [score |-> score,
                     points |-> point_severity(score).severity,
                     df |-> df_severity(score),
                     cell |-> cell_severity(score).severity,
                     dummy_stats |-> dummy_stats_bands(score)],
                    "not called")
    /\ UNCHANGED <<parcels, alerts, now, scaler, trained_model, inflight>>

call_dummy(geojson_obj, rnd) ==
    /\ resp = NoResp
    /\ resp' = Resp(Call("generate_dummy_heatmap"), 0,
                    [geojson_obj |-> geojson_obj, rnd |-> rnd,
                     out |-> generate_dummy_heatmap(geojson_obj, rnd)],
                    "not called")
    /\ UNCHANGED <<parcels, alerts, now, scaler, trained_model, inflight>>

call_compute(geojson_obj, reference_date, env) ==
    \E res \in {compute_ndvi_and_run_model(geojson_obj, reference_date, env,
                                           scaler, trained_model)} :
        /\ resp = NoResp
        /\ resp' = Resp(Call("compute_ndvi_and_run_model"), 0,
                        [geojson_obj |-> geojson_obj,
                         reference_date |-> reference_date,
                         env |-> env, out |-> res],
                        IF res.raised THEN "raised" ELSE "returned")
        /\ scaler' = res.scaler
        /\ trained_model' = res.trained_model
        /\ UNCHANGED <<parcels, alerts, now, inflight>>

NextP ==
    \/ \E score \in Scores : classify(score)
    \/ \E geojson_obj \in Geometries \ {G_nocoords}, rnd \in Streams :
            call_dummy(geojson_obj, rnd)
    \/ \E geojson_obj \in Geometries, reference_date \in ReferenceDates, env \in Envs :
            call_compute(geojson_obj, reference_date, env)

SpecP == Init /\ [][NextP]_vars

(***************************************************************************)
(* The server as app.run starts it: threaded, one worker thread per         *)
(* request, all threads sharing the database and the module-level scaler    *)
(* and trained_model of processing.py.  POST /api/lands and DELETE are      *)
(* single transactions and take one step each; api_compute_heatmap takes    *)
(* one step per access to the shared state, the statements between two      *)
(* accesses (which touch locals only) belonging to the step that follows    *)
(* them.  A thread's pc names the access it is about to make.               *)
(*   scaler.fit_transform  processing.py 179-196                            *)
(*   IsolationForest       processing.py 198-202                            *)
(*   trained_model.fit     processing.py 203-204                            *)
(*   scaler.transform      processing.py 206-212                            *)
(*   decision_function     processing.py 213-231                            *)
(*   last_computed_at      app.py 274-275 (UPDATE and commit)               *)
(*   Alert                 app.py 278-284 (parcel.name is reloaded)         *)
(*   session.add           app.py 285-286 (INSERT and commit)               *)
(*   jsonify               app.py 288-293 (last_computed_at is reloaded)    *)
(***************************************************************************)
G_rect == [type |-> "Polygon", coordinates |-> "rect"]

StoredBodies == {MakeBody({"name", "geojson"}, "A", "", JDict(G_tri))}

NoDate == [py |-> "absent", s |-> ""]

ThreadRaws == {<<5, -4>>}

ThreadStream == 0

At(t, pc) == inflight[t].pc = pc

Goto(t, pc) == inflight' = [inflight EXCEPT ![t].pc = pc]

own_data(t) == training_data(inflight[t].geojson_obj, reference_date_of(NoDate))

compute_request(user, land_id) ==
    Request(user, "POST", "/api/lands/<id>/compute", land_id, NoDate)

(* The handler of thread t returns or raises: the response is sent and the *)
(* thread is free again.                                                   *)
Answer(t, status, body) ==
    /\ resp' = Resp(compute_request(inflight[t].user, inflight[t].land_id),
                    status, body, "returned")
    /\ inflight' = [inflight EXCEPT ![t] = Idle]

(* app.py 248-268: get_or_404, the ownership check, json.loads; no         *)
(* reference_date is sent.                                                 *)
compute_begin(t, user, land_id) ==
    /\ At(t, "idle")
    /\ IF land_id \notin DOMAIN parcels
       THEN /\ resp' = Resp(compute_request(user, land_id), 404,
                            Error("Not Found"), "not called")
            /\ UNCHANGED inflight
       ELSE IF parcels[land_id].user_id # user
       THEN /\ resp' = Resp(compute_request(user, land_id), 403,
                            Error("Unauthorized"), "not called")
            /\ UNCHANGED inflight
       ELSE /\ inflight' = [inflight EXCEPT ![t] =
                  [pc |-> "scaler.fit_transform", user |-> user, land_id |-> land_id,
                   path |-> "none", heatmap |-> <<>>, stats |-> <<>>,
                   geojson_obj |-> json_loads(parcels[land_id].geojson),
                   transformed_with |-> Unfitted, scored_with |-> Unfitted,
                   name |-> parcels[land_id].name]]
            /\ UNCHANGED resp
    /\ UNCHANGED <<parcels, alerts, now, scaler, trained_model>>

scaler_fit_transform(t) ==
    /\ At(t, "scaler.fit_transform")
    /\ scaler' = Fitted(own_data(t))
    /\ Goto(t, "IsolationForest")
    /\ UNCHANGED <<parcels, alerts, now, trained_model, resp>>

new_isolation_forest(t) ==
    /\ At(t, "IsolationForest")
    /\ trained_model' = Unfitted
    /\ Goto(t, "trained_model.fit")
    /\ UNCHANGED <<parcels, alerts, now, scaler, resp>>

trained_model_fit(t) ==
    /\ At(t, "trained_model.fit")
    /\ trained_model' = Fitted(own_data(t))
    /\ Goto(t, "scaler.transform")
    /\ UNCHANGED <<parcels, alerts, now, scaler, resp>>

scaler_transform(t) ==
    /\ At(t, "scaler.transform")
    /\ inflight' = [inflight EXCEPT ![t].pc = "decision_function",
                                    ![t].transformed_with = scaler]
    /\ UNCHANGED <<parcels, alerts, now, scaler, trained_model, resp>>

(* decision_function raises NotFittedError on a forest that was created    *)
(* and not fitted yet; the except block then returns the placeholder.      *)
decision_function(t, raws) ==
    /\ At(t, "decision_function")
    /\ inflight' = [inflight EXCEPT ![t] =
          IF trained_model.fitted
          THEN [inflight[t] EXCEPT
                  !.pc = "last_computed_at", !.path = "real",
                  !.heatmap = generate_heatmap_from_points(score_and_normalize(raws)),
                  !.stats = compute_statistics_from_df(score_and_normalize(raws)),
                  !.scored_with = trained_model]
          ELSE [inflight[t] EXCEPT
                  !.pc = "last_computed_at", !.path = "fallback",
                  !.heatmap = call_generate_dummy_heatmap(inflight[t].geojson_obj,
                                                          ThreadStream).heatmap,
                  !.stats = call_generate_dummy_heatmap(inflight[t].geojson_obj,
                                                        ThreadStream).stats]]
    /\ UNCHANGED <<parcels, alerts, now, scaler, trained_model, resp>>

(* The UPDATE of a row that is gone matches no row: StaleDataError.        *)
write_last_computed_at(t) ==
    /\ At(t, "last_computed_at")
    /\ IF inflight[t].land_id \in DOMAIN parcels
       THEN /\ parcels' = [parcels EXCEPT
                             ![inflight[t].land_id].last_computed_at = <<now>>]
            /\ Goto(t, IF inflight[t].stats.critical_count > 0
                       THEN "Alert" ELSE "jsonify")
            /\ UNCHANGED resp
       ELSE /\ Answer(t, 500, Error("StaleDataError"))
            /\ UNCHANGED parcels
    /\ UNCHANGED <<alerts, now, scaler, trained_model>>

(* The commit expired parcel; reading parcel.name reloads the row and      *)
(* raises ObjectDeletedError when it is gone.                              *)
build_alert(t) ==
    /\ At(t, "Alert")
    /\ IF inflight[t].land_id \in DOMAIN parcels
       THEN /\ inflight' = [inflight EXCEPT
                              ![t].pc = "session.add",
                              ![t].name = parcels[inflight[t].land_id].name]
            /\ UNCHANGED resp
       ELSE Answer(t, 500, Error("ObjectDeletedError"))
    /\ UNCHANGED <<parcels, alerts, now, scaler, trained_model>>

(* SQLite does not enforce the foreign key of alerts.land_id.              *)
add_alert(t) ==
    /\ At(t, "session.add")
    /\ Cardinality(DOMAIN alerts) < MaxAlerts
    /\ alerts' = table_add(alerts, Alert(inflight[t].land_id,
                                         inflight[t].stats.critical_count,
                                         inflight[t].name, now))
    /\ Goto(t, "jsonify")
    /\ UNCHANGED <<parcels, now, scaler, trained_model, resp>>

respond(t) ==
    /\ At(t, "jsonify")
    /\ IF inflight[t].land_id \in DOMAIN parcels
       THEN Answer(t, 200,
                   [heatmap |-> inflight[t].heatmap, stats |-> inflight[t].stats,
                    computed_at |-> isoformat_or_none(
                        parcels[inflight[t].land_id].last_computed_at),
                    reference_date |-> "today"])
       ELSE Answer(t, 500, Error("ObjectDeletedError"))
    /\ UNCHANGED <<parcels, alerts, now, scaler, trained_model>>

NextC ==
    \/ \E user \in Users, data \in StoredBodies : api_lands_post(user, data)
    \/ \E user \in Users, land_id \in LandIds :
            api_land_detail(user, land_id, "DELETE", EmptyDict)
    \/ \E t \in Threads, user \in Users, land_id \in LandIds :
            compute_begin(t, user, land_id)
    \/ \E t \in Threads : scaler_fit_transform(t)
    \/ \E t \in Threads : new_isolation_forest(t)
    \/ \E t \in Threads : trained_model_fit(t)
    \/ \E t \in Threads : scaler_transform(t)
    \/ \E t \in Threads, raws \in ThreadRaws : decision_function(t, raws)
    \/ \E t \in Threads : write_last_computed_at(t)
    \/ \E t \in Threads : build_alert(t)
    \/ \E t \in Threads : add_alert(t)
    \/ \E t \in Threads : respond(t)

SpecC == Init /\ [][NextC]_vars

(***************************************************************************)
(* compute_ndvi_and_run_model called by several threads at once, each on   *)
(* its own polygon: the steps of the analysis above, entered by the call   *)
(* and left by its return.                                                 *)
(***************************************************************************)
call_begin(t, geojson_obj) ==
    /\ At(t, "idle")
    /\ inflight' = [inflight EXCEPT ![t] =
          [Idle EXCEPT !.pc = "scaler.fit_transform", !.geojson_obj = geojson_obj]]
    /\ UNCHANGED <<parcels, alerts, now, scaler, trained_model, resp>>

call_return(t) ==
    /\ At(t, "last_computed_at")
    /\ resp' = Resp(Call("compute_ndvi_and_run_model"), 0,
                    [heatmap |-> inflight[t].heatmap, stats |-> inflight[t].stats,
                     geojson_obj |-> inflight[t].geojson_obj],
                    "returned")
    /\ inflight' = [inflight EXCEPT ![t] = Idle]
    /\ UNCHANGED <<parcels, alerts, now, scaler, trained_model>>

NextT ==
    \/ \E t \in Threads, geojson_obj \in {G_tri, G_rect} : call_begin(t, geojson_obj)
    \/ \E t \in Threads : scaler_fit_transform(t)
    \/ \E t \in Threads : new_isolation_forest(t)
    \/ \E t \in Threads : trained_model_fit(t)
    \/ \E t \in Threads : scaler_transform(t)
    \/ \E t \in Threads, raws \in ThreadRaws : decision_function(t, raws)
    \/ \E t \in Threads : call_return(t)

SpecT == Init /\ [][NextT]_vars

(***************************************************************************)
(* The properties checked.  A step of Spec that is not Tick serves the      *)
(* request recorded in resp'.op; a state of SpecP other than the initial    *)
(* one holds the call made in resp.                                         *)
(***************************************************************************)
Band(score) ==
    IF LE(score, Q(3, 10)) THEN "healthy"
    ELSE IF LE(score, Q(5, 10)) THEN "moderate"
    ELSE IF LE(score, Q(7, 10)) THEN "warning"
    ELSE "critical"

InUnitInterval(q) == q.d > 0 /\ 0 <= q.n /\ q.n <= q.d

IsCall(symbol) == resp.op.method = "call" /\ resp.op.route = symbol

Surviving(geojson_obj) ==
    {k \in 1..Len(grid_cells) :
        clip_kind(geojson_obj.coordinates, grid_cells[k].i, grid_cells[k].j)
            # "disjoint"}

FeaturesOf(heatmap, severity) ==
    {n \in 1..Len(heatmap.features) :
        heatmap.features[n].properties.severity = severity}

Occurrences(trace, step) == Cardinality({n \in 1..Len(trace) : trace[n] = step})

ServedStep == now' = now

ComputeStep ==
    /\ ServedStep
    /\ resp'.op.method = "POST"
    /\ resp'.op.route = "/api/lands/<id>/compute"

(* C1: every score in [0,1], the boundaries 0.3, 0.5 and 0.7 included, is  *)
(* put in exactly one band (healthy up to 0.3, moderate up to 0.5, warning *)
(* up to 0.7, critical above), and the chain of                            *)
(* generate_heatmap_from_points, the lambda of compute_statistics_from_df, *)
(* the chain of generate_dummy_heatmap and the conditions of its stats     *)
(* counts all give that band.                                              *)
C1_SameBandEverywhere ==
    IsCall("classify") =>
        /\ InUnitInterval(resp.body.score)
        /\ resp.body.points = Band(resp.body.score)
        /\ resp.body.df = Band(resp.body.score)
        /\ resp.body.cell = Band(resp.body.score)
        /\ resp.body.dummy_stats = {Band(resp.body.score)}

C1_Witness ==
    /\ IsCall("classify")
    /\ resp.body.score.n * 10 = 7 * resp.body.score.d
    /\ resp.body.df = "warning"
    /\ resp.body.dummy_stats = {"warning"}

(* C2: a compute request whose analysis returned stores exactly one new    *)
(* alert, of severity critical and for the parcel of the request, when     *)
(* the returned critical_count is positive, and leaves the alerts as they  *)
(* were when it is 0; no stored alert is altered or removed.               *)
C2_OneCriticalAlertIffCritical ==
    [][(ComputeStep /\ resp'.analysis = "returned") =>
          /\ \A k \in DOMAIN alerts : k \in DOMAIN alerts' /\ alerts'[k] = alerts[k]
          /\ IF resp'.body.stats.critical_count > 0
             THEN \E k \in DOMAIN alerts' \ DOMAIN alerts :
                    /\ DOMAIN alerts' \ DOMAIN alerts = {k}
                    /\ alerts'[k].severity = "critical"
                    /\ alerts'[k].land_id = resp'.op.land_id
             ELSE alerts' = alerts]_vars

C2_Witness ==
    /\ resp.op.route = "/api/lands/<id>/compute"
    /\ resp.analysis = "returned"
    /\ resp.body.stats.critical_count > 0
    /\ \E k \in DOMAIN alerts :
          alerts[k].land_id = resp.op.land_id /\ alerts[k].severity = "critical"

(* C3: every call of compute_ndvi_and_run_model returns a (heatmap, stats) *)
(* pair; when a step of the analysis raised or found no data, no step was  *)
(* retried and the pair is the one that a single call of                   *)
(* generate_dummy_heatmap on the same polygon produced.                    *)
C3_AlwaysReturnsPair ==
    IsCall("compute_ndvi_and_run_model") =>
        /\ resp.analysis = "returned"
        /\ \A n \in 1..Len(StepsOfTry) :
              Occurrences(resp.body.out.trace, StepsOfTry[n]) <= 1
        /\ ~completed(resp.body.env) =>
              /\ resp.body.out.path = "fallback"
              /\ Occurrences(resp.body.out.trace, "generate_dummy_heatmap") = 1
              /\ \E d \in {generate_dummy_heatmap(resp.body.geojson_obj,
                                                  resp.body.env.rnd)} :
                    /\ ~d.raised
                    /\ resp.body.out.heatmap = d.heatmap
                    /\ resp.body.out.stats = d.stats

(* C4: generate_dummy_heatmap returns one feature, with one score, for     *)
(* each of the 6 x 6 cells whose clip to the polygon is not empty and      *)
(* none for the others, so at most 36 features, and total_zones is the     *)
(* number of those cells.                                                  *)
C4_OneFeaturePerSurvivingCell ==
    IsCall("generate_dummy_heatmap") =>
        /\ ~resp.body.out.raised
        /\ Len(grid_cells) = 36
        /\ Len(resp.body.out.heatmap.features) = Cardinality(Surviving(resp.body.geojson_obj))
        /\ \A k \in 1..Len(grid_cells) :
              Cardinality({n \in 1..Len(resp.body.out.heatmap.features) :
                              resp.body.out.heatmap.features[n].geometry.cell = grid_cells[k]})
                  = IF k \in Surviving(resp.body.geojson_obj) THEN 1 ELSE 0
        /\ Len(resp.body.out.heatmap.features) <= 36
        /\ resp.body.out.stats.total_zones = Cardinality(Surviving(resp.body.geojson_obj))

(* C5: in every result that compute_ndvi_and_run_model returns there is    *)
(* one feature per sampled point (real path) or per surviving cell         *)
(* (fallback path), total_zones is the number of features, each of the     *)
(* four counts is the number of features of that severity, and the four    *)
(* counts add up to total_zones.                                           *)
C5_StatsMatchFeatures ==
    (IsCall("compute_ndvi_and_run_model") /\ resp.analysis = "returned") =>
        /\ resp.body.out.path = "real" =>
              Len(resp.body.out.heatmap.features) = Len(resp.body.env.raws)
        /\ resp.body.out.path = "fallback" =>
              Len(resp.body.out.heatmap.features)
                  = Cardinality(Surviving(resp.body.geojson_obj))
        /\ resp.body.out.stats.total_zones = Len(resp.body.out.heatmap.features)
        /\ resp.body.out.stats.healthy_count
              = Cardinality(FeaturesOf(resp.body.out.heatmap, "healthy"))
        /\ resp.body.out.stats.moderate_count
              = Cardinality(FeaturesOf(resp.body.out.heatmap, "moderate"))
        /\ resp.body.out.stats.warning_count
              = Cardinality(FeaturesOf(resp.body.out.heatmap, "warning"))
        /\ resp.body.out.stats.critical_count
              = Cardinality(FeaturesOf(resp.body.out.heatmap, "critical"))
        /\ resp.body.out.stats.healthy_count + resp.body.out.stats.moderate_count
              + resp.body.out.stats.warning_count + resp.body.out.stats.critical_count
              = resp.body.out.stats.total_zones

C5_Witness ==
    /\ IsCall("compute_ndvi_and_run_model")
    /\ resp.analysis = "returned"
    /\ resp.body.out.path = "real"
    /\ resp.body.out.stats.total_zones = MaxPoints
    /\ resp.body.out.stats.warning_count > 0
    /\ resp.body.out.stats.critical_count > 0
    /\ resp.body.out.stats.healthy_count > 0

(* C6: every score that is classified lies in [0,1]: the                   *)
(* normalized_anomaly of every point of the real path, whatever the raw    *)
(* scores (all equal included), and every score generated on the fallback  *)
(* path.                                                                   *)
C6_ScoresInUnitInterval ==
    /\ (IsCall("compute_ndvi_and_run_model") /\ resp.analysis = "returned") =>
          \A n \in 1..Len(resp.body.out.heatmap.features) :
              InUnitInterval(resp.body.out.heatmap.features[n].properties.score)
    /\ (IsCall("generate_dummy_heatmap") /\ ~resp.body.out.raised) =>
          \A n \in 1..Len(resp.body.out.heatmap.features) :
              InUnitInterval(resp.body.out.heatmap.features[n].properties.score)

C6_Witness ==
    /\ IsCall("compute_ndvi_and_run_model")
    /\ resp.body.out.path = "real"
    /\ Len(resp.body.env.raws) >= 2
    /\ \A n \in 1..Len(resp.body.env.raws) : resp.body.env.raws[n] = resp.body.env.raws[1]
    /\ \A n \in 1..Len(resp.body.out.heatmap.features) :
          resp.body.out.heatmap.features[n].properties.score = Q(1, 1)

(* C7: the calls of an analysis are made once each and in the order        *)
(* historical fetch, scaler fit, model fit, current fetch, scoring and     *)
(* normalization, heatmap, statistics; the current data is fetched only    *)
(* after the model was trained in this call; and when the historical data  *)
(* is empty nothing is trained, no current data is fetched and the         *)
(* fallback result is returned.                                            *)
C7_LinearSequence ==
    IsCall("compute_ndvi_and_run_model") =>
        /\ \A m, n \in 1..Len(resp.body.out.trace) :
              \A a, b \in 1..Len(StepsOfTry) :
                  (resp.body.out.trace[m] = StepsOfTry[a]
                   /\ resp.body.out.trace[n] = StepsOfTry[b]
                   /\ m < n) => a < b
        /\ Occurrences(resp.body.out.trace, "get_s2_data_for_date") > 0 =>
              /\ Occurrences(resp.body.out.trace, "trained_model.fit") = 1
              /\ resp.body.out.trained_model
                    = Fitted(training_data(resp.body.geojson_obj,
                                           resp.body.reference_date))
        /\ resp.body.env.fail = "hist_empty" =>
              /\ Occurrences(resp.body.out.trace, "scaler.fit_transform") = 0
              /\ Occurrences(resp.body.out.trace, "trained_model.fit") = 0
              /\ Occurrences(resp.body.out.trace, "get_s2_data_for_date") = 0
              /\ resp.body.out.path = "fallback"
              /\ resp.analysis = "returned"

(* C8: POST /api/lands answers 201 only to a body with a non-empty name    *)
(* and a non-empty geojson of type Polygon or MultiPolygon, and then has   *)
(* added exactly one parcel, owned by the sender, and returns the geojson  *)
(* sent; every other request is answered 400 and leaves the parcels as     *)
(* they were.                                                              *)
C8_PostValidation ==
    [][(ServedStep /\ resp'.op.method = "POST" /\ resp'.op.route = "/api/lands") =>
          IF resp'.status = 201
          THEN /\ "name" \in DOMAIN resp'.op.data
               /\ resp'.op.data.name # ""
               /\ "geojson" \in DOMAIN resp'.op.data
               /\ truthy_geo(resp'.op.data.geojson)
               /\ dict_get(resp'.op.data.geojson.val, "type")
                      \in {"Polygon", "MultiPolygon"}
               /\ \A k \in DOMAIN parcels :
                      k \in DOMAIN parcels' /\ parcels'[k] = parcels[k]
               /\ \E k \in DOMAIN parcels' \ DOMAIN parcels :
                      /\ DOMAIN parcels' \ DOMAIN parcels = {k}
                      /\ parcels'[k].user_id = resp'.op.user
                      /\ resp'.body.id = k
               /\ resp'.body.geojson = resp'.op.data.geojson.val
          ELSE resp'.status = 400 /\ parcels' = parcels]_vars

(* C9: a request for /api/lands/<id> (GET, PUT, DELETE),                   *)
(* /api/lands/<id>/compute or /api/lands/<id>/area sent by a user who does *)
(* not own the parcel <id> is answered 403 with the error alone, runs no   *)
(* analysis and leaves parcels and alerts as they were; GET /api/lands     *)
(* lists only parcels whose user_id is the sender.                         *)
C9_OwnerOnly ==
    [][ServedStep =>
          /\ (/\ resp'.op.land_id \in DOMAIN parcels
              /\ parcels[resp'.op.land_id].user_id # resp'.op.user) =>
                /\ resp'.status = 403
                /\ resp'.body = Error("Unauthorized")
                /\ resp'.analysis = "not called"
                /\ parcels' = parcels
                /\ alerts' = alerts
                /\ scaler' = scaler
                /\ trained_model' = trained_model
          /\ (resp'.op.method = "GET" /\ resp'.op.route = "/api/lands") =>
                \A p \in resp'.body :
                    /\ p.id \in DOMAIN parcels
                    /\ parcels[p.id].user_id = resp'.op.user]_vars

C9_Witness ==
    /\ resp.status = 403
    /\ resp.op.method = "DELETE"
    /\ resp.op.land_id \in DOMAIN parcels
    /\ parcels[resp.op.land_id].user_id # resp.op.user

(* C10: a compute request of the parcel's owner whose reference_date is    *)
(* present and no valid YYYY-MM-DD date is answered 400 with               *)
(* compute_ndvi_and_run_model not called, last_computed_at and the alerts  *)
(* as they were; every compute request of the owner that is not answered   *)
(* 400 leaves the parcel with a last_computed_at that is not null.         *)
C10_DateValidation ==
    [][(/\ ComputeStep
        /\ resp'.op.land_id \in DOMAIN parcels
        /\ parcels[resp'.op.land_id].user_id = resp'.op.user) =>
          /\ (/\ resp'.op.data.py # "absent"
              /\ ~(resp'.op.data.py = "str" /\ resp'.op.data.s \in ValidDates)) =>
                /\ resp'.status = 400
                /\ resp'.analysis = "not called"
                /\ parcels' = parcels
                /\ alerts' = alerts
          /\ resp'.status # 400 =>
                parcels'[resp'.op.land_id].last_computed_at # <<>>]_vars

PutStep ==
    /\ ServedStep
    /\ resp'.op.method = "PUT"
    /\ resp'.op.route = "/api/lands/<id>"

(* C14: a PUT /api/lands/<id> answered 400 leaves the parcels, the name    *)
(* and description of the addressed one included, and the alerts as they   *)
(* were; a PUT answered 200 sets exactly the fields of name, description   *)
(* and geojson that its body carries, and leaves the other fields of the   *)
(* parcel (user_id, created_at, last_computed_at), the other parcels and   *)
(* all alerts as they were.                                                *)
C14_PutFrame ==
    [][PutStep =>
          /\ resp'.status = 400 => (parcels' = parcels /\ alerts' = alerts)
          /\ resp'.status = 200 =>
                /\ alerts' = alerts
                /\ DOMAIN parcels' = DOMAIN parcels
                /\ \A k \in DOMAIN parcels \ {resp'.op.land_id} :
                      parcels'[k] = parcels[k]
                /\ parcels'[resp'.op.land_id].user_id
                      = parcels[resp'.op.land_id].user_id
                /\ parcels'[resp'.op.land_id].created_at
                      = parcels[resp'.op.land_id].created_at
                /\ parcels'[resp'.op.land_id].last_computed_at
                      = parcels[resp'.op.land_id].last_computed_at
                /\ parcels'[resp'.op.land_id].name
                      = IF "name" \in DOMAIN resp'.op.data
                        THEN resp'.op.data.name
                        ELSE parcels[resp'.op.land_id].name
                /\ parcels'[resp'.op.land_id].description
                      = IF "description" \in DOMAIN resp'.op.data
                        THEN resp'.op.data.description
                        ELSE parcels[resp'.op.land_id].description
                /\ parcels'[resp'.op.land_id].geojson
                      = IF "geojson" \in DOMAIN resp'.op.data
                        THEN json_dumps(resp'.op.data.geojson.val)
                        ELSE parcels[resp'.op.land_id].geojson]_vars

C14_Witness ==
    /\ resp.op.method = "PUT"
    /\ resp.status = 400
    /\ "name" \in DOMAIN resp.op.data
    /\ "description" \in DOMAIN resp.op.data
    /\ resp.op.land_id \in DOMAIN parcels
    /\ parcels[resp.op.land_id].name # resp.op.data.name
    /\ parcels[resp.op.land_id].description # resp.op.data.description

RealPoints(heatmap) ==
    /\ Len(heatmap.features) > 0
    /\ \A n \in 1..Len(heatmap.features) :
          "row" \in DOMAIN heatmap.features[n].geometry

(* C13: a compute request served by the real analysis returns a heatmap in *)
(* which every point with the lowest raw score (every point, when all raw  *)
(* scores are equal) has normalized_anomaly 1 and severity critical, so    *)
(* its critical_count is at least 1 and it stores a critical alert for the *)
(* parcel; a returned critical_count of 0 comes from the fallback path.    *)
C13_LowestScoreIsCritical ==
    [][(ComputeStep /\ resp'.analysis = "returned") =>
          /\ RealPoints(resp'.body.heatmap) =>
                /\ resp'.body.stats.critical_count >= 1
                /\ \E k \in DOMAIN alerts' \ DOMAIN alerts :
                      /\ alerts'[k].land_id = resp'.op.land_id
                      /\ alerts'[k].severity = "critical"
                /\ \E env \in WebEnvs :
                      /\ completed(env)
                      /\ resp'.body.heatmap
                            = generate_heatmap_from_points(score_and_normalize(env.raws))
                /\ \A env \in WebEnvs :
                      (/\ completed(env)
                       /\ resp'.body.heatmap
                            = generate_heatmap_from_points(score_and_normalize(env.raws)))
                      => \A n \in 1..Len(env.raws) :
                            env.raws[n] = SeqMin(env.raws) =>
                              /\ resp'.body.heatmap.features[n].properties.score.n
                                    = resp'.body.heatmap.features[n].properties.score.d
                              /\ resp'.body.heatmap.features[n].properties.severity
                                    = "critical"
          /\ resp'.body.stats.critical_count = 0 =>
                ~RealPoints(resp'.body.heatmap)]_vars

C13_Witness ==
    /\ resp.op.route = "/api/lands/<id>/compute"
    /\ resp.analysis = "returned"
    /\ RealPoints(resp.body.heatmap)
    /\ resp.body.stats.total_zones >= 2
    /\ resp.body.stats.healthy_count >= 1
    /\ resp.body.stats.critical_count = 1
    /\ \E k \in DOMAIN alerts : alerts[k].land_id = resp.op.land_id

(* C11: whatever the order and interleaving of parcel creation, compute    *)
(* and DELETE requests, the land_id of every stored alert is the id of a   *)
(* stored parcel: a DELETE takes the parcel's alerts with it, and a        *)
(* compute request running beside it leaves no alert for the parcel that   *)
(* is gone.                                                                *)
C11_AlertsReferToParcels ==
    \A k \in DOMAIN alerts : alerts[k].land_id \in DOMAIN parcels

(* C12: a request that has transformed its current points did so with the  *)
(* scaler fitted in that request on its own historical data, and a request *)
(* that has scored them did so with the model fitted in that request on    *)
(* its own historical data, whatever the other requests did meanwhile.     *)
C12_OwnScalerAndModel ==
    \A t \in Threads :
        /\ inflight[t].pc \in {"decision_function", "last_computed_at"} =>
              inflight[t].transformed_with = Fitted(own_data(t))
        /\ inflight[t].path = "real" =>
              inflight[t].scored_with = Fitted(own_data(t))

====
